---- MODULE Spec2Model ----
(***************************************************************************)
(* A model of tilemaker's OSM store (include/osm_store.h): the UsedWays    *)
(* bitset, the RelationScanStore reverse index, the RelationStore holding  *)
(* area, the point-filling helper of the geometry builders and the ring    *)
(* assembly used for multipolygon relations.                               *)
(*                                                                         *)
(* The components share no state, so each has a specification of its own   *)
(* (SpecUsedWays, SpecScan, SpecRelations, SpecFill, SpecMerge) over the   *)
(* same variables; a component's actions leave the other components'       *)
(* variables unchanged.                                                    *)
(***************************************************************************)
EXTENDS Integers, Sequences, FiniteSets, TLC

\* Worker threads calling into the store concurrently.
NumThreads == 2
Threads == 1..NumThreads

\* No thread: the value of a free mutex.
NoThread == 0

VARIABLES
    \* ---- UsedWays
    usedList,       \* std::vector<bool>: [size, bits], bits the indices holding true
    capacity,       \* usedList.capacity(), in words
    inited,         \* UsedWays::inited
    uwMutex,        \* UsedWays::mutex: the thread holding it, or NoThread
    uwPc,           \* per thread: its position inside UsedWays::insert
    uwArg,          \* per thread: the wayid of the insert in progress
    marked,         \* history: the ids whose insert has returned since the last clear
    uwLast,         \* history: the UsedWays operation that returned last
    \* ---- RelationScanStore
    relationsForWays,   \* std::map<WayID, std::vector<WayID>>
    relationTags,       \* std::map<WayID, tag_map_t>
    rsMutex,            \* RelationScanStore::mutex
    rsPc,               \* per thread: the locked operation it is inside, or "idle"
    recorded,           \* history: the (relid, wayid) pairs whose call has returned
    recordLog,          \* history: wayid -> the relids recorded for it, in call order
    storedTags,         \* history: relid -> the tags of its most recent store call
    rsLast,             \* history: the RelationScanStore operation that returned last
    \* ---- RelationStore
    mOutInLists,        \* the deque behind std::unique_ptr<map_t>
    relMutex,           \* RelationStore::mutex
    relPc,              \* per thread: its position inside insert_front
    relLocal,           \* per thread: insert_front's locals (i, new_relations)
    relLast,            \* history: the RelationStore operation that returned last
    insertedLog,        \* history: the entries of the finished insert_front calls
    \* ---- OSMStore::fillPoints
    nodes,              \* the NodeStore: node id -> LatpLon
    require_integrity,  \* OSMStore::require_integrity
    fillLast,           \* history: the last geometry construction and its outcome
    failedBefore,       \* history: an earlier geometry construction threw
    \* ---- OSMStore::llListPolygon
    polyLast,           \* history: the last llListPolygon call and its Polygon
    \* ---- OsmLuaProcessing::CorrectGeometry
    cgLast,             \* history: the last CorrectGeometry call and what it left
    \* ---- ring assembly
    mpWays,             \* the member ways of the relation: outer and inner
    mpPc,               \* position in wayListMultiPolygon
    mpRole,             \* the member list being merged: "outer" or "inner"
    mpIdx,              \* position of the for loop over the member list
    mpAdded,            \* `added` of the current pass
    mpDone,             \* the `done` map: the consumed ways
    mpResults,          \* `results` of the list being merged
    mpOuters,           \* the merged outer chains
    mpInners,           \* the merged inner chains
    mpPasses,           \* history: the passes made over the list being merged
    mpOut               \* the MultiPolygon returned

usedVars == <<usedList, capacity, inited, uwMutex, uwPc, uwArg, marked, uwLast>>
scanVars == <<relationsForWays, relationTags, rsMutex, rsPc, recorded, recordLog, storedTags,
              rsLast>>
relVars == <<mOutInLists, relMutex, relPc, relLocal, relLast, insertedLog>>
fillVars == <<nodes, require_integrity, fillLast, failedBefore>>
polyVars == <<polyLast>>
cgVars == <<cgLast>>
mergeVars == <<mpWays, mpPc, mpRole, mpIdx, mpAdded, mpDone, mpResults, mpOuters,
               mpInners, mpPasses, mpOut>>
vars == <<usedVars, scanVars, relVars, fillVars, mergeVars, polyVars, cgVars>>

----------------------------------------------------------------------------
(* UsedWays                                                                *)

\* The slack insert adds when it grows the vector.
ResizeSlack == 256
\* std::vector<bool> allocates whole words: its capacity is counted in words
\* of WordBits bits.
WordBits == 64
\* The reservation of non-compact mode, pow(2,31) bits, in words.
FullReserveWords == 33554432

\* The way ids the threads use: the small ids, and the ids just past the
\* size that growing for a small id gives.
MaxWay == 1
UsedIds == (0..MaxWay) \cup {ResizeSlack + i : i \in 1..MaxWay}
\* The node counts handed to reserve.
SizeHints == {9, 4096}

NoOp == [op |-> "none"]

\* The other components' variables, which no UsedWays operation touches.
UsedWaysFrame ==
    UNCHANGED <<scanVars, relVars, fillVars, mergeVars, polyVars, cgVars>>

UsedWaysInit ==
    /\ usedList = [size |-> 0, bits |-> {}]
    /\ capacity = 0
    /\ inited = FALSE
    /\ uwMutex = NoThread
    /\ uwPc = [t \in Threads |-> "idle"]
    /\ uwArg = [t \in Threads |-> 0]
    /\ marked = {}
    /\ uwLast = NoOp

\* The words that hold n bits.
WordsFor(n) == (n + WordBits - 1) \div WordBits

\* std::vector<bool>::reserve of `words` words: the capacity becomes at least
\* that, never less.
VectorReserve(cap, words) == IF words > cap THEN words ELSE cap

\* std::vector<bool>::resize(n): elements past n are dropped, new elements are false.
VectorResize(v, n) == [size |-> n, bits |-> {b \in v.bits : b < n}]

\* The capacity reserve asks for, in words: numNodes/8 bits in compact mode.
ReserveTarget(compact, numNodes) ==
    IF compact THEN WordsFor(numNodes \div 8) ELSE FullReserveWords

\* Reserved without its guard: a reserve that sizes the vector on every call.
ReservedUnguarded(wasInited, cap, compact, numNodes) ==
    [inited |-> TRUE,
     capacity |-> VectorReserve(cap, ReserveTarget(compact, numNodes))]

\* The body of UsedWays::reserve: [inited, capacity] after the call.
Reserved(wasInited, cap, compact, numNodes) ==
    IF wasInited
    THEN [inited |-> wasInited, capacity |-> cap]
    ELSE [inited |-> TRUE,
          capacity |-> VectorReserve(cap, ReserveTarget(compact, numNodes))]

\* UsedWays::reserve, the whole body under the lock.
UsedWays_reserve(t, compact, numNodes) ==
    /\ uwPc[t] = "idle"
    /\ uwMutex = NoThread
    /\ inited' = Reserved(inited, capacity, compact, numNodes).inited
    /\ capacity' = Reserved(inited, capacity, compact, numNodes).capacity
    /\ uwLast' = [op |-> "reserve", wasInited |-> inited]
    /\ UNCHANGED <<usedList, uwMutex, uwPc, uwArg, marked>>
    /\ UsedWaysFrame

\* UsedWays::insert: the lock_guard is taken.
UsedWays_insert_lock(t, wayid) ==
    /\ uwPc[t] = "idle"
    /\ uwMutex = NoThread
    /\ uwMutex' = t
    /\ uwPc' = [uwPc EXCEPT ![t] = "insert_check"]
    /\ uwArg' = [uwArg EXCEPT ![t] = wayid]
    /\ UNCHANGED <<usedList, capacity, inited, marked, uwLast>>
    /\ UsedWaysFrame

\* Whether insert grows the vector for wayid.
InsertGrows(wayid, size) == wayid > size

\* UsedWays::insert: if (wayid>usedList.size()) usedList.resize(wayid+256).
UsedWays_insert_resize(t) ==
    /\ uwPc[t] = "insert_check"
    /\ IF InsertGrows(uwArg[t], usedList.size)
         THEN /\ usedList' = VectorResize(usedList, uwArg[t] + ResizeSlack)
              /\ capacity' = VectorReserve(capacity, WordsFor(uwArg[t] + ResizeSlack))
         ELSE UNCHANGED <<usedList, capacity>>
    /\ uwPc' = [uwPc EXCEPT ![t] = "insert_set"]
    /\ UNCHANGED <<inited, uwMutex, uwArg, marked, uwLast>>
    /\ UsedWaysFrame

\* UsedWays::insert: usedList[wayid] = true, and the lock_guard is released.
\* operator[] checks no bound: a write at wayid >= size is undefined behaviour
\* that leaves the elements [0, size) as they are.
UsedWays_insert_set(t) ==
    /\ uwPc[t] = "insert_set"
    /\ IF uwArg[t] < usedList.size
         THEN usedList' = [usedList EXCEPT !.bits = @ \cup {uwArg[t]}]
         ELSE UNCHANGED usedList
    /\ uwMutex' = NoThread
    /\ uwPc' = [uwPc EXCEPT ![t] = "idle"]
    /\ uwArg' = [uwArg EXCEPT ![t] = 0]
    /\ marked' = marked \cup {uwArg[t]}
    /\ uwLast' = [op |-> "insert", w |-> uwArg[t], oob |-> uwArg[t] >= usedList.size]
    /\ UNCHANGED <<capacity, inited>>
    /\ UsedWaysFrame

\* Whether another thread is inside insert while t reads without the lock.
AtRaces(t) == \E u \in Threads \ {t} : uwPc[u] # "idle"

\* Whether at(wayid) reads element wayid of the vector v.
AtReadsElement(wayid, v) == ~(wayid > v.size)

\* The values at(wayid) can return. It takes no lock: racing an insert is a
\* data race, and reading element wayid = size is out of bounds; both are
\* undefined behaviour, any value may come back.
AtOutcomes(t, wayid) ==
    IF AtRaces(t) THEN BOOLEAN
    ELSE IF ~AtReadsElement(wayid, usedList) THEN {FALSE}
    ELSE IF wayid >= usedList.size THEN BOOLEAN
    ELSE {wayid \in usedList.bits}

\* UsedWays::at.
UsedWays_at(t, wayid) ==
    /\ uwPc[t] = "idle"
    /\ \E r \in AtOutcomes(t, wayid) :
         uwLast' = [op |-> "at", w |-> wayid, ret |-> r,
                    wasMarked |-> wayid \in marked,
                    raced |-> AtRaces(t),
                    oob |-> AtReadsElement(wayid, usedList) /\ wayid >= usedList.size]
    /\ UNCHANGED <<usedList, capacity, inited, uwMutex, uwPc, uwArg, marked>>
    /\ UsedWaysFrame

\* UsedWays::clear, the whole body under the lock.
UsedWays_clear(t) ==
    /\ uwPc[t] = "idle"
    /\ uwMutex = NoThread
    /\ usedList' = [size |-> 0, bits |-> {}]
    /\ marked' = {}
    /\ uwLast' = [op |-> "clear"]
    /\ UNCHANGED <<capacity, inited, uwMutex, uwPc, uwArg>>
    /\ UsedWaysFrame

UsedWaysNext ==
    \E t \in Threads :
        \/ \E c \in BOOLEAN, n \in SizeHints : UsedWays_reserve(t, c, n)
        \/ \E w \in UsedIds : UsedWays_insert_lock(t, w)
        \/ UsedWays_insert_resize(t)
        \/ UsedWays_insert_set(t)
        \/ \E w \in UsedIds : UsedWays_at(t, w)
        \/ UsedWays_clear(t)

----------------------------------------------------------------------------
(* RelationScanStore                                                       *)

\* The relation ids, way ids, tag keys and tag values the threads use.
RelIds == {1, 2}
ScanWays == {1, 2}
Keys == {"k"}
Values == {"", "v"}
\* tag_map_t: the maps from some keys to values.
TagMaps == UNION {[ks -> Values] : ks \in SUBSET Keys}
\* The relation_contains_way calls of a run.
MaxMemberships == 2


\* The other components' variables, which no RelationScanStore operation touches.
ScanFrame ==
    UNCHANGED <<usedVars, relVars, fillVars, mergeVars, polyVars, cgVars>>

RECURSIVE SumLen(_, _)
SumLen(m, ks) ==
    IF ks = {} THEN 0
    ELSE LET k == CHOOSE x \in ks : TRUE IN Len(m[k]) + SumLen(m, ks \ {k})

ScanInit ==
    /\ relationsForWays = << >>
    /\ relationTags = << >>
    /\ rsMutex = NoThread
    /\ rsPc = [t \in Threads |-> "idle"]
    /\ recorded = {}
    /\ recordLog = [w \in ScanWays |-> << >>]
    /\ storedTags = << >>
    /\ rsLast = NoOp

\* MapIndex that drops the other entries when it creates one.
MapIndexDropsOthers(m, k, default) == IF k \in DOMAIN m THEN m ELSE (k :> default)

\* std::map::operator[]: the entry of key k, value-initialised when absent.
MapIndex(m, k, default) == IF k \in DOMAIN m THEN m ELSE m @@ (k :> default)

\* std::map assignment m[k] = v.
MapAssign(m, k, v) == [x \in DOMAIN m \cup {k} |-> IF x = k THEN v ELSE m[x]]

\* EmplaceBackRelation that assigns the one-element vector: the relations
\* recorded before for the way are dropped.
EmplaceBackOverwrites(m, wayid, relid) == MapAssign(m, wayid, <<relid>>)

\* EmplaceBackRelation that keeps each relation once per way.
EmplaceBackUnique(m, wayid, relid) ==
    LET m1 == MapIndex(m, wayid, << >>)
    IN  IF \E k \in 1..Len(m1[wayid]) : m1[wayid][k] = relid
        THEN m1
        ELSE [m1 EXCEPT ![wayid] = Append(@, relid)]

\* relationsForWays[wayid].emplace_back(relid).
EmplaceBackRelation(m, wayid, relid) ==
    LET m1 == MapIndex(m, wayid, << >>)
    IN  [m1 EXCEPT ![wayid] = Append(@, relid)]

\* AssignRelationTags that inserts the new tags into the stored map instead
\* of replacing it: keys of an earlier snapshot survive.
AssignRelationTagsMerges(m, relid, tags) ==
    MapAssign(m, relid, IF relid \in DOMAIN m THEN tags @@ m[relid] ELSE tags)

\* relationTags[relid] = tags.
AssignRelationTags(m, relid, tags) == MapAssign(m, relid, tags)

\* A locked operation op is entered: its lock_guard is taken.
RelationScanStore_lock(t, op) ==
    /\ rsPc[t] = "idle"
    /\ rsMutex = NoThread
    /\ rsMutex' = t
    /\ rsPc' = [rsPc EXCEPT ![t] = op]
    /\ UNCHANGED <<relationsForWays, relationTags, recorded, recordLog, storedTags, rsLast>>
    /\ ScanFrame

\* The locked operation of t returns: its lock_guard is released.
RelationScanStore_unlock(t) ==
    /\ rsMutex' = NoThread
    /\ rsPc' = [rsPc EXCEPT ![t] = "idle"]

\* RelationScanStore::relation_contains_way, its body and return.
RelationScanStore_relation_contains_way(t, relid, wayid) ==
    /\ rsPc[t] = "relation_contains_way"
    /\ SumLen(relationsForWays, DOMAIN relationsForWays) < MaxMemberships
    /\ relationsForWays' = EmplaceBackRelation(relationsForWays, wayid, relid)
    /\ recorded' = recorded \cup {<<relid, wayid>>}
    /\ recordLog' = [recordLog EXCEPT ![wayid] = Append(@, relid)]
    /\ rsLast' = [op |-> "relation_contains_way"]
    /\ RelationScanStore_unlock(t)
    /\ UNCHANGED <<relationTags, storedTags>>
    /\ ScanFrame

\* RelationScanStore::store_relation_tags, its body and return.
RelationScanStore_store_relation_tags(t, relid, tags) ==
    /\ rsPc[t] = "store_relation_tags"
    /\ relationTags' = AssignRelationTags(relationTags, relid, tags)
    /\ storedTags' = [x \in DOMAIN storedTags \cup {relid} |->
                        IF x = relid THEN tags ELSE storedTags[x]]
    /\ rsLast' = [op |-> "store_relation_tags"]
    /\ RelationScanStore_unlock(t)
    /\ UNCHANGED <<relationsForWays, recorded, recordLog>>
    /\ ScanFrame

\* RelationScanStore::clear, its body and return.
RelationScanStore_clear(t) ==
    /\ rsPc[t] = "clear"
    /\ relationsForWays' = << >>
    /\ relationTags' = << >>
    /\ recorded' = {}
    /\ recordLog' = [w \in ScanWays |-> << >>]
    /\ storedTags' = << >>
    /\ rsLast' = [op |-> "clear"]
    /\ RelationScanStore_unlock(t)
    /\ ScanFrame

\* Whether another thread is inside a locked operation while t reads without
\* the lock: a data race on the maps.
ReadRaces(t) == \E u \in Threads \ {t} : rsPc[u] # "idle"

\* way_in_any_relations: relationsForWays.find(wayid) != relationsForWays.end().
WayInAnyRelations(m, wayid) == wayid \in DOMAIN m

\* relations_for_way: the copy of relationsForWays[wayid] returned.
RelationsForWay(m, wayid) == MapIndex(m, wayid, << >>)[wayid]

\* get_relation_tag: "" for an unknown relation or an absent key.
GetRelationTag(m, relid, key) ==
    IF relid \notin DOMAIN m THEN ""
    ELSE IF key \notin DOMAIN m[relid] THEN ""
    ELSE m[relid][key]

\* RelationScanStore::way_in_any_relations. No lock is taken: a call that
\* races a locked operation is undefined behaviour, any value may come back.
RelationScanStore_way_in_any_relations(t, wayid) ==
    /\ rsPc[t] = "idle"
    /\ \E r \in (IF ReadRaces(t) THEN BOOLEAN
                 ELSE {WayInAnyRelations(relationsForWays, wayid)}) :
         rsLast' = [op |-> "way_in_any_relations", wayid |-> wayid, ret |-> r,
                      raced |-> ReadRaces(t)]
    /\ UNCHANGED <<relationsForWays, relationTags, rsMutex, rsPc, recorded, recordLog,
                   storedTags>>
    /\ ScanFrame

\* RelationScanStore::relations_for_way. No lock is taken, and operator[]
\* creates the entry of a way that has none.
RelationScanStore_relations_for_way(t, wayid) ==
    /\ rsPc[t] = "idle"
    /\ relationsForWays' = MapIndex(relationsForWays, wayid, << >>)
    /\ \E r \in (IF ReadRaces(t)
                 THEN {<< >>, RelationsForWay(relationsForWays, wayid)}
                 ELSE {RelationsForWay(relationsForWays, wayid)}) :
         rsLast' = [op |-> "relations_for_way", wayid |-> wayid, ret |-> r,
                    raced |-> ReadRaces(t)]
    /\ UNCHANGED <<relationTags, rsMutex, rsPc, recorded, recordLog, storedTags>>
    /\ ScanFrame

\* RelationScanStore::get_relation_tag. No lock is taken.
RelationScanStore_get_relation_tag(t, relid, key) ==
    /\ rsPc[t] = "idle"
    /\ \E r \in (IF ReadRaces(t) THEN Values
                 ELSE {GetRelationTag(relationTags, relid, key)}) :
         rsLast' = [op |-> "get_relation_tag", relid |-> relid, key |-> key,
                      ret |-> r, raced |-> ReadRaces(t)]
    /\ UNCHANGED <<relationsForWays, relationTags, rsMutex, rsPc, recorded, recordLog,
                   storedTags>>
    /\ ScanFrame

ScanNext ==
    \E t \in Threads :
        \/ RelationScanStore_lock(t, "relation_contains_way")
        \/ \E r \in RelIds, w \in ScanWays :
               RelationScanStore_relation_contains_way(t, r, w)
        \/ RelationScanStore_lock(t, "store_relation_tags")
        \/ \E r \in RelIds, tags \in TagMaps :
               RelationScanStore_store_relation_tags(t, r, tags)
        \/ RelationScanStore_lock(t, "clear")
        \/ RelationScanStore_clear(t)
        \/ \E w \in ScanWays : RelationScanStore_way_in_any_relations(t, w)
        \/ \E w \in ScanWays : RelationScanStore_relations_for_way(t, w)
        \/ \E r \in RelIds, k \in Keys : RelationScanStore_get_relation_tag(t, r, k)

----------------------------------------------------------------------------
(* RelationStore                                                           *)

\* The relations handed to insert_front: element_t is (id, (outers, inners)).
MaxEntry == 2
Element(id) == [id |-> id, outer |-> <<id>>, inner |-> << >>]
Elements == {Element(id) : id \in 1..MaxEntry}
\* A value-initialised element_t, what deque::resize appends.
EmptyElement == [id |-> 0, outer |-> << >>, inner |-> << >>]
\* The longest new_relations vector, and the most elements stored.
MaxBatch == 2
MaxStored == 3
Batches == UNION {[1..n -> Elements] : n \in 0..MaxBatch}

NoLocal == [i |-> 0, new_relations |-> << >>]

\* The other components' variables, which no RelationStore operation touches.
RelationsFrame ==
    UNCHANGED <<usedVars, scanVars, fillVars, mergeVars, polyVars, cgVars>>

\* OSMStore's constructor calls reopen(): the deque exists and is empty.
RelationsInit ==
    /\ mOutInLists = << >>
    /\ relMutex = NoThread
    /\ relPc = [t \in Threads |-> "idle"]
    /\ relLocal = [t \in Threads |-> NoLocal]
    /\ relLast = NoOp
    /\ insertedLog = << >>

\* std::deque::resize(n) for n >= size: value-initialised elements are appended.
DequeResize(d, n) == [k \in 1..n |-> IF k <= Len(d) THEN d[k] ELSE EmptyElement]

\* CopyAt that copies to d.begin(): the new elements land at the front, over
\* the elements stored before.
CopyAtFront(d, i, src) ==
    [k \in 1..Len(d) |-> IF k <= Len(src) THEN src[k] ELSE d[k]]

\* std::copy(first, last, d.begin() + i): src overwrites d from offset i on.
CopyAt(d, i, src) ==
    [k \in 1..Len(d) |-> IF k > i /\ k <= i + Len(src) THEN src[k - i] ELSE d[k]]

\* RelationStore::reopen, the whole body under the lock: a fresh empty deque.
RelationStore_reopen(t) ==
    /\ relPc[t] = "idle"
    /\ relMutex = NoThread
    /\ mOutInLists' = << >>
    /\ insertedLog' = << >>
    /\ relLast' = [op |-> "reopen"]
    /\ UNCHANGED <<relMutex, relPc, relLocal>>
    /\ RelationsFrame

\* RelationStore::insert_front: the lock is taken and i = mOutInLists->size().
RelationStore_insert_front_lock(t, new_relations) ==
    /\ relPc[t] = "idle"
    /\ relMutex = NoThread
    /\ Len(mOutInLists) + Len(new_relations) <= MaxStored
    /\ relMutex' = t
    /\ relPc' = [relPc EXCEPT ![t] = "resize"]
    /\ relLocal' = [relLocal EXCEPT ![t] = [i |-> Len(mOutInLists),
                                            new_relations |-> new_relations]]
    /\ UNCHANGED <<mOutInLists, relLast, insertedLog>>
    /\ RelationsFrame

\* RelationStore::insert_front: mOutInLists->resize(i + new_relations.size()).
RelationStore_insert_front_resize(t) ==
    /\ relPc[t] = "resize"
    /\ mOutInLists' = DequeResize(mOutInLists,
                                  relLocal[t].i + Len(relLocal[t].new_relations))
    /\ relPc' = [relPc EXCEPT ![t] = "copy"]
    /\ UNCHANGED <<relMutex, relLocal, relLast, insertedLog>>
    /\ RelationsFrame

\* RelationStore::insert_front: the std::copy of the moved elements, and return.
RelationStore_insert_front_copy(t) ==
    /\ relPc[t] = "copy"
    /\ mOutInLists' = CopyAt(mOutInLists, relLocal[t].i, relLocal[t].new_relations)
    /\ insertedLog' = insertedLog \o relLocal[t].new_relations
    /\ relMutex' = NoThread
    /\ relPc' = [relPc EXCEPT ![t] = "idle"]
    /\ relLocal' = [relLocal EXCEPT ![t] = NoLocal]
    /\ relLast' = [op |-> "insert_front"]
    /\ RelationsFrame

\* RelationStore::clear, the whole body under the lock.
RelationStore_clear(t) ==
    /\ relPc[t] = "idle"
    /\ relMutex = NoThread
    /\ mOutInLists' = << >>
    /\ insertedLog' = << >>
    /\ relLast' = [op |-> "clear"]
    /\ UNCHANGED <<relMutex, relPc, relLocal>>
    /\ RelationsFrame

\* RelationStore::size, the whole body under the lock.
RelationStore_size(t) ==
    /\ relPc[t] = "idle"
    /\ relMutex = NoThread
    /\ relLast' = [op |-> "size", ret |-> Len(mOutInLists)]
    /\ UNCHANGED <<mOutInLists, relMutex, relPc, relLocal, insertedLog>>
    /\ RelationsFrame

RelationsNext ==
    \E t \in Threads :
        \/ RelationStore_reopen(t)
        \/ \E b \in Batches : RelationStore_insert_front_lock(t, b)
        \/ RelationStore_insert_front_resize(t)
        \/ RelationStore_insert_front_copy(t)
        \/ RelationStore_clear(t)
        \/ RelationStore_size(t)

----------------------------------------------------------------------------
(* OSMStore::fillPoints and the geometry builders on it                    *)

\* LatpLon holds degrees times 10^7 as integers.
CoordScale == 10000000

\* The node ids of the input, and the longest way.
MaxNode == 2
NodeIds == 1..MaxNode
MaxChainLen == 3
Chains == UNION {[1..n -> NodeIds] : n \in 0..MaxChainLen}

\* The LatpLon of node n, in units of 10^-7 degrees: the corners of a square
\* of side 4 for n = 1..4, a small triangle inside that square for n = 6..8,
\* a triangle away from the square for n = 9..11, further nodes on the
\* diagonal outside the square.
NodeLatpLon(n) ==
    CASE n = 1 -> [latp |-> 0, lon |-> 0]
      [] n = 2 -> [latp |-> 0, lon |-> 4]
      [] n = 3 -> [latp |-> 4, lon |-> 4]
      [] n = 4 -> [latp |-> 4, lon |-> 0]
      [] n = 6 -> [latp |-> 1, lon |-> 2]
      [] n = 7 -> [latp |-> 1, lon |-> 3]
      [] n = 8 -> [latp |-> 2, lon |-> 3]
      [] n = 9 -> [latp |-> 10, lon |-> 10]
      [] n = 10 -> [latp |-> 10, lon |-> 14]
      [] n = 11 -> [latp |-> 14, lon |-> 14]
      [] OTHER -> [latp |-> n + 3, lon |-> n + 3]

\* The NodeStore in which the nodes ns were stored.
NodeStoreOf(ns) == [n \in ns |-> NodeLatpLon(n)]

NoResult == [op |-> "none", chain |-> << >>, integrity |-> TRUE, threw |-> FALSE,
             points |-> << >>]

\* The other components' variables, which no geometry builder touches.
FillFrame ==
    UNCHANGED <<usedVars, scanVars, relVars, mergeVars, polyVars, cgVars>>

FillInit ==
    /\ nodes \in {NodeStoreOf(ns) : ns \in SUBSET NodeIds}
    /\ require_integrity = TRUE
    /\ fillLast = NoResult
    /\ failedBefore = FALSE

\* boost::geometry::make<Point>(lon/10000000.0, latp/10000000.0): the
\* coordinates in degrees, kept as the fractions lon/10^7 and latp/10^7.
MakePoint(ll) ==
    [x |-> [num |-> ll.lon, den |-> CoordScale],
     y |-> [num |-> ll.latp, den |-> CoordScale]]

\* fillPoints that swallows the lookup failure whatever require_integrity says.
RECURSIVE fillPointsNeverThrows(_, _, _, _)
fillPointsNeverThrows(points, chain, store, integrity) ==
    IF chain = << >> THEN [threw |-> FALSE, points |-> points]
    ELSE IF Head(chain) \in DOMAIN store
         THEN fillPointsNeverThrows(Append(points, MakePoint(store[Head(chain)])),
                                    Tail(chain), store, integrity)
    ELSE fillPointsNeverThrows(points, Tail(chain), store, integrity)

\* fillPoints that leaves the loop at the first lookup failure it swallows.
RECURSIVE fillPointsStopsAtMissing(_, _, _, _)
fillPointsStopsAtMissing(points, chain, store, integrity) ==
    IF chain = << >> THEN [threw |-> FALSE, points |-> points]
    ELSE IF Head(chain) \in DOMAIN store
         THEN fillPointsStopsAtMissing(Append(points, MakePoint(store[Head(chain)])),
                                       Tail(chain), store, integrity)
    ELSE [threw |-> integrity, points |-> points]

\* OSMStore::fillPoints over the node ids of chain: the lookup of a node that
\* is not stored throws std::out_of_range, rethrown when require_integrity is
\* set and swallowed otherwise.
RECURSIVE fillPoints(_, _, _, _)
fillPoints(points, chain, store, integrity) ==
    IF chain = << >> THEN [threw |-> FALSE, points |-> points]
    ELSE IF Head(chain) \in DOMAIN store
         THEN fillPoints(Append(points, MakePoint(store[Head(chain)])),
                         Tail(chain), store, integrity)
    ELSE IF integrity THEN [threw |-> TRUE, points |-> points]
    ELSE fillPoints(points, Tail(chain), store, integrity)

\* OSMStore::llListLinestring: the Linestring returned, none when fillPoints threw.
llListLinestring(chain, store, integrity) ==
    LET r == fillPoints(<< >>, chain, store, integrity)
    IN  IF r.threw THEN [threw |-> TRUE, points |-> << >>] ELSE r

\* OSMStore::enforce_integrity.
OSMStore_enforce_integrity(ei) ==
    /\ require_integrity' = ei
    /\ UNCHANGED <<nodes, fillLast, failedBefore>>
    /\ FillFrame

\* A way is built into a Linestring by OSMStore::llListLinestring.
OSMStore_llListLinestring(chain) ==
    /\ LET r == llListLinestring(chain, nodes, require_integrity)
       IN  fillLast' = [op |-> "llListLinestring", chain |-> chain,
                        integrity |-> require_integrity, threw |-> r.threw,
                        points |-> r.points]
    /\ failedBefore' = (failedBefore \/ fillLast.threw)
    /\ UNCHANGED <<nodes, require_integrity>>
    /\ FillFrame

FillNext ==
    \/ \E ei \in BOOLEAN : OSMStore_enforce_integrity(ei)
    \/ \E c \in Chains : OSMStore_llListLinestring(c)

----------------------------------------------------------------------------
(* Ring assembly: OSMStore::wayListMultiPolygon and mergeMultiPolygonWays  *)

\* The WayStore of the runs: way id -> node ids. Ways 1 and 2 are the two
\* halves of the square 1-2-3-4, ways 3 and 4 are the same halves reversed,
\* way 5 is a closed triangle, ways 6 and 7 dangle off corner 3, way 8 is a
\* closed triangle away from the square, way 9 a closed triangle inside way 5.
WayNodes(w) ==
    CASE w = 1 -> <<1, 2, 3>>
      [] w = 2 -> <<3, 4, 1>>
      [] w = 3 -> <<1, 4, 3>>
      [] w = 4 -> <<3, 2, 1>>
      [] w = 5 -> <<1, 2, 3, 1>>
      [] w = 6 -> <<3, 5>>
      [] w = 7 -> <<5, 3>>
      [] w = 8 -> <<9, 10, 11, 9>>
      [] OTHER -> <<6, 7, 8, 6>>
StoredWays == {1, 2, 3, 4, 5, 6, 7, 8, 9}

\* The longest outer and inner member lists of a relation.
MaxOuter == 2
MaxInner == 1
WayVecs(n) == UNION {[1..k -> StoredWays] : k \in 0..n}
\* The ways that relations have as inner members: the halves of the square,
\* the two triangles in it and a dangling way.
InnerWays == {1, 2, 5, 6, 9}
InnerVecs(n) == UNION {[1..k -> InnerWays] : k \in 0..n}

\* The history counter of passes saturates one past the longest list.
PassCap == MaxOuter + MaxInner + 1

\* The other components' variables, which the assembly does not touch.
MergeFrame ==
    UNCHANGED <<usedVars, scanVars, relVars, fillVars, polyVars, cgVars>>

MergeInit ==
    /\ mpWays \in [outer : WayVecs(MaxOuter), inner : InnerVecs(MaxInner)]
    /\ mpPc = "begin"
    /\ mpRole = "outer"
    /\ mpIdx = 0
    /\ mpAdded = 0
    /\ mpDone = {}
    /\ mpResults = << >>
    /\ mpOuters = << >>
    /\ mpInners = << >>
    /\ mpPasses = [outer |-> 0, inner |-> 0]
    /\ mpOut = << >>

Front(r) == r[1]
Back(r) == r[Len(r)]
Reverse(r) == [k \in 1..Len(r) |-> r[Len(r) + 1 - k]]
\* IsClosed that compares the first node with the one before the last.
IsClosedOffByOne(r) == Len(r) > 1 /\ Front(r) = r[Len(r) - 1]

\* Whether a chain is a closed ring: its two ends are the same node.
IsClosed(r) == Len(r) > 1 /\ Front(r) = Back(r)

\* The member list the merge runs over.
MemberList == IF mpRole = "outer" THEN mpWays.outer ELSE mpWays.inner

\* Whether every member of list is consumed.
AllDone(list, done) == \A k \in 1..Len(list) : list[k] \in done

\* Whether way w shares an endpoint with the open chain r.
Joins(r, w) ==
    /\ ~IsClosed(r)
    /\ {Front(w), Back(w)} \cap {Front(r), Back(r)} # {}

\* Joined that never reverses the way it prepends or appends.
JoinedUnreversed(r, w) ==
    IF Back(w) = Front(r) \/ Front(w) = Front(r)
    THEN SubSeq(w, 1, Len(w) - 1) \o r
    ELSE r \o SubSeq(w, 2, Len(w))

\* The chain r extended by way w, either reversed as needed.
Joined(r, w) ==
    IF Back(w) = Front(r) THEN SubSeq(w, 1, Len(w) - 1) \o r
    ELSE IF Front(w) = Front(r) THEN SubSeq(Reverse(w), 1, Len(w) - 1) \o r
    ELSE IF Front(w) = Back(r) THEN r \o SubSeq(w, 2, Len(w))
    ELSE r \o SubSeq(Reverse(w), 2, Len(w))

\* The first chain of results that way w can be joined to, 0 for none.
JoinTarget(results, w) ==
    IF \E k \in 1..Len(results) : Joins(results[k], w)
    THEN CHOOSE k \in 1..Len(results) :
             /\ Joins(results[k], w)
             /\ \A j \in 1..(k - 1) : ~Joins(results[j], w)
    ELSE 0

\* ContinueMerging without the test for consumed members: the loop goes on
\* until a pass consumes nothing.
ContinueWhileAdded(added, list, done) == added > 0

\* Whether another pass over the members follows a pass that consumed
\* `added` ways: not once all are consumed, nor after a pass that made no progress.
ContinueMerging(added, list, done) == added > 0 /\ ~AllDone(list, done)

\* The first member not yet consumed, 0 for none.
FirstUndone(list, done) ==
    IF AllDone(list, done) THEN 0
    ELSE CHOOSE k \in 1..Len(list) :
             /\ list[k] \notin done
             /\ \A j \in 1..(k - 1) : list[j] \in done

Bump(n) == IF n < PassCap THEN n + 1 ELSE n

\* The merge of one member list ends: the outer chains are kept and the
\* inner list is merged next, on its own; after the inner list the polygons
\* are built.
FinishRole(results) ==
    IF mpRole = "outer"
    THEN /\ mpOuters' = results
         /\ mpRole' = "inner"
         /\ mpPc' = "begin"
         /\ mpDone' = {}
         /\ mpResults' = << >>
         /\ mpIdx' = 0
         /\ mpAdded' = 0
         /\ UNCHANGED mpInners
    ELSE /\ mpInners' = results
         /\ mpPc' = "build"
         /\ mpResults' = results
         /\ UNCHANGED <<mpRole, mpDone, mpIdx, mpAdded, mpOuters>>

\* mergeMultiPolygonWays is entered for a member list.
MergeBegin ==
    /\ mpPc = "begin"
    /\ IF AllDone(MemberList, mpDone)
         THEN /\ FinishRole(mpResults)
              /\ UNCHANGED mpPasses
         ELSE /\ mpPc' = "visit"
              /\ mpIdx' = 1
              /\ mpAdded' = 0
              /\ mpPasses' = [mpPasses EXCEPT ![mpRole] = Bump(@)]
              /\ UNCHANGED <<mpRole, mpDone, mpResults, mpOuters, mpInners>>
    /\ UNCHANGED <<mpWays, mpOut>>
    /\ MergeFrame

\* One member of the pass: a consumed way is skipped, a closed way becomes a
\* ring, an open way is joined to the first open chain it shares an endpoint with.
MergeVisit ==
    /\ mpPc = "visit"
    /\ mpIdx <= Len(MemberList)
    /\ LET w == MemberList[mpIdx]
           nodesOfWay == WayNodes(w)
           k == JoinTarget(mpResults, nodesOfWay)
       IN  IF w \in mpDone
           THEN UNCHANGED <<mpDone, mpResults, mpAdded>>
           ELSE IF IsClosed(nodesOfWay)
           THEN /\ mpResults' = Append(mpResults, nodesOfWay)
                /\ mpDone' = mpDone \cup {w}
                /\ mpAdded' = mpAdded + 1
           ELSE IF k # 0
           THEN /\ mpResults' = [mpResults EXCEPT ![k] = Joined(@, nodesOfWay)]
                /\ mpDone' = mpDone \cup {w}
                /\ mpAdded' = mpAdded + 1
           ELSE UNCHANGED <<mpDone, mpResults, mpAdded>>
    /\ mpIdx' = mpIdx + 1
    /\ UNCHANGED <<mpWays, mpPc, mpRole, mpOuters, mpInners, mpPasses, mpOut>>
    /\ MergeFrame

\* The end of a pass: a pass that consumed nothing seeds a new chain with the
\* first way left; then the loop condition.
MergePassEnd ==
    /\ mpPc = "visit"
    /\ mpIdx > Len(MemberList)
    /\ LET s == IF mpAdded = 0 THEN FirstUndone(MemberList, mpDone) ELSE 0
           results == IF s = 0 THEN mpResults
                      ELSE Append(mpResults, WayNodes(MemberList[s]))
           done == IF s = 0 THEN mpDone ELSE mpDone \cup {MemberList[s]}
           added == IF s = 0 THEN mpAdded ELSE mpAdded + 1
       IN  IF ContinueMerging(added, MemberList, done)
           THEN /\ mpResults' = results
                /\ mpDone' = done
                /\ mpIdx' = 1
                /\ mpAdded' = 0
                /\ mpPasses' = [mpPasses EXCEPT ![mpRole] = Bump(@)]
                /\ UNCHANGED <<mpPc, mpRole, mpOuters, mpInners>>
           ELSE /\ FinishRole(results)
                /\ UNCHANGED mpPasses
    /\ UNCHANGED <<mpWays, mpOut>>
    /\ MergeFrame

\* The coordinates of a ring of node ids.
RingPoints(r) == [k \in 1..Len(r) |-> NodeLatpLon(r[k])]

\* Twice the signed area of the triangle a, b, p.
Cross(a, b, p) ==
    (b.lon - a.lon) * (p.latp - a.latp) - (b.latp - a.latp) * (p.lon - a.lon)

\* Point p is inside or on the convex ring pts.
CoveredBy(p, pts) ==
    \/ \A k \in 1..(Len(pts) - 1) : Cross(pts[k], pts[k + 1], p) >= 0
    \/ \A k \in 1..(Len(pts) - 1) : Cross(pts[k], pts[k + 1], p) <= 0

\* The containment test of an inner ring in an outer ring (the outer rings
\* of the WayStore above are convex).
RingWithin(inner, outer) ==
    \A k \in 1..Len(inner) : CoveredBy(RingPoints(inner)[k], RingPoints(outer))

\* ClosedRings that lets every chain through, open ones too.
ClosedRingsUnfiltered(chains) == chains

\* The closed chains among chains, in order.
ClosedRings(chains) == SelectSeq(chains, IsClosed)

\* OuterOf that takes the first outer polygon without the containment test.
OuterOfFirst(inner, outers) == IF Len(outers) > 0 THEN 1 ELSE 0

\* The outer polygon an inner ring is assigned to: the first that contains it.
OuterOf(inner, outers) ==
    IF \E k \in 1..Len(outers) : RingWithin(inner, outers[k])
    THEN CHOOSE k \in 1..Len(outers) :
             /\ RingWithin(inner, outers[k])
             /\ \A j \in 1..(k - 1) : ~RingWithin(inner, outers[j])
    ELSE 0

\* wayListMultiPolygon's result: a polygon per closed outer ring, with the
\* closed inner rings it contains; open chains are left out.
BuildMultiPolygon(outers, inners) ==
    LET os == ClosedRings(outers)
        is == ClosedRings(inners)
    IN  [k \in 1..Len(os) |->
            [outer |-> os[k],
             inners |-> SelectSeq(is, LAMBDA r : OuterOf(r, os) = k)]]

\* wayListMultiPolygon builds the polygons and returns.
MergeBuild ==
    /\ mpPc = "build"
    /\ mpOut' = BuildMultiPolygon(mpOuters, mpInners)
    /\ mpPc' = "done"
    /\ UNCHANGED <<mpWays, mpRole, mpIdx, mpAdded, mpDone, mpResults, mpOuters,
                   mpInners, mpPasses>>
    /\ MergeFrame

MergeNext == MergeBegin \/ MergeVisit \/ MergePassEnd \/ MergeBuild

----------------------------------------------------------------------------
(* OSMStore::llListPolygon                                                 *)

\* The nodes of the ways built into polygons: three corners of the square.
PolyNodes == {1, 2, 3}
\* The longest way built into a polygon.
MaxRingLen == 4
PolyChains == UNION {[1..n -> PolyNodes] : n \in 0..MaxRingLen}

NoPolygon == [op |-> "none", chain |-> << >>, threw |-> FALSE, outer |-> << >>]

\* The other components' variables, which llListPolygon does not touch.
PolygonFrame == UNCHANGED <<usedVars, scanVars, relVars, mergeVars, cgVars>>

IdlePolygon == polyLast = NoPolygon

PolygonInit ==
    /\ nodes = NodeStoreOf(PolyNodes)
    /\ require_integrity = TRUE
    /\ fillLast = NoResult
    /\ failedBefore = FALSE
    /\ polyLast = NoPolygon

\* The sum of x[k] * y[k+1] - x[k+1] * y[k] over the segments of ring, in
\* units of 10^-7 degrees: positive for a counter-clockwise ring.
RECURSIVE Shoelace(_)
Shoelace(ring) ==
    IF Len(ring) < 2 THEN 0
    ELSE ring[1].x.num * ring[2].y.num - ring[2].x.num * ring[1].y.num
             + Shoelace(Tail(ring))

\* boost::geometry::area of a ring of a clockwise, closed Polygon, doubled:
\* 0 for a ring of fewer than 4 points, positive for a clockwise ring.
RingArea2(ring) == IF Len(ring) < 4 THEN 0 ELSE 0 - Shoelace(ring)

\* The closure step of boost::geometry::correct that closes a ring of any length.
CloseRingAlways(ring) ==
    IF Len(ring) > 0 /\ Front(ring) # Back(ring) THEN Append(ring, Front(ring)) ELSE ring

\* The closure step of boost::geometry::correct on a ring of a closed
\* Polygon: a ring of more than two points whose ends differ gets its first
\* point appended; shorter rings are left as they are.
CloseRing(ring) ==
    IF Len(ring) > 2 /\ Front(ring) # Back(ring) THEN Append(ring, Front(ring)) ELSE ring

\* boost::geometry::correct on the outer ring: close it, then reverse it
\* when its area is negative.
CorrectRing(ring) ==
    LET closed == CloseRing(ring)
    IN  IF RingArea2(closed) < 0 THEN Reverse(closed) ELSE closed

\* OSMStore::llListPolygon: the outer ring of the Polygon returned, none
\* when fillPoints threw.
llListPolygon(chain, store, integrity) ==
    LET r == fillPoints(<< >>, chain, store, integrity)
    IN  IF r.threw THEN [threw |-> TRUE, outer |-> << >>]
        ELSE [threw |-> FALSE, outer |-> CorrectRing(r.points)]

\* A way is built into a Polygon by OSMStore::llListPolygon.
OSMStore_llListPolygon(chain) ==
    /\ LET r == llListPolygon(chain, nodes, require_integrity)
       IN  polyLast' = [op |-> "llListPolygon", chain |-> chain,
                        threw |-> r.threw, outer |-> r.outer]
    /\ UNCHANGED fillVars
    /\ PolygonFrame

PolygonNext == \E c \in PolyChains : OSMStore_llListPolygon(c)

----------------------------------------------------------------------------
(* OsmLuaProcessing::CorrectGeometry                                       *)

\* boost::geometry::failure_few_points, the value CorrectGeometry tests for.
FewPoints == 10

\* The ways whose rings are handed to CorrectGeometry, as node ids: one
\* and two points, open and closed triangles in both directions, a spike.
CorrectedWays ==
    {<<1>>, <<1, 2>>, <<2, 3>>, <<1, 2, 3>>, <<3, 2, 1>>, <<1, 2, 3, 1>>,
     <<1, 2, 3, 2, 1>>}

\* The ring of points of a way.
RingOf(way) == [k \in 1..Len(way) |-> MakePoint(NodeLatpLon(way[k]))]

NoCorrection == [op |-> "none"]

\* The other components' variables, which CorrectGeometry does not touch.
CorrectFrame == UNCHANGED <<usedVars, scanVars, relVars, fillVars, mergeVars, polyVars>>

IdleCorrect == cgLast = NoCorrection

\* Whether ring has a spike: it goes to a point and straight back.
HasSpike(ring) == \E k \in 1..(Len(ring) - 2) : ring[k] = ring[k + 2]

\* boost::geometry::is_valid on a ring of a closed Polygon, for the rings
\* above: the validity_failure_type it reports, 0 (no_failure) for a valid ring.
ValidityFailure(ring) ==
    IF Len(ring) < 4 THEN FewPoints
    ELSE IF HasSpike(ring) THEN 12
    ELSE 0

\* The body of CorrectGeometry: the geometry its caller holds after the
\* call, the failure found, whether a line was printed, and whether the
\* function left through `if (failure==10) return;`. The function is void
\* and takes the geometry by reference: both returns leave the corrected
\* geometry with the caller.
CorrectGeometry(geom, isRelation, isWay, verbose, validity) ==
    LET corrected == CorrectRing(geom)
        checked == validity /\ (isRelation \/ isWay)
        failure == IF checked THEN ValidityFailure(corrected) ELSE 0
    IN  [geom |-> corrected,
         checked |-> checked,
         failure |-> failure,
         logged |-> verbose /\ failure # 0,
         early |-> failure = FewPoints,
         threw |-> FALSE]

\* OsmLuaProcessing::CorrectGeometry is called on the geometry of an
\* object; validity says whether the build has BOOST_VERSION >= 105800.
OsmLuaProcessing_CorrectGeometry(way, isRelation, isWay, verbose, validity) ==
    /\ LET r == CorrectGeometry(RingOf(way), isRelation, isWay, verbose, validity)
       IN  cgLast' = [op |-> "CorrectGeometry", in |-> RingOf(way),
                      isRelation |-> isRelation, isWay |-> isWay,
                      validity |-> validity,
                      verbose |-> verbose, geom |-> r.geom, checked |-> r.checked,
                      failure |-> r.failure, logged |-> r.logged,
                      early |-> r.early, threw |-> r.threw]
    /\ CorrectFrame

CorrectNext ==
    \E way \in CorrectedWays, isRelation \in BOOLEAN, isWay \in BOOLEAN,
       verbose \in BOOLEAN, validity \in BOOLEAN :
        OsmLuaProcessing_CorrectGeometry(way, isRelation, isWay, verbose, validity)

----------------------------------------------------------------------------
(* Specifications                                                          *)

IdleFill ==
    /\ nodes = NodeStoreOf(NodeIds)
    /\ require_integrity = TRUE
    /\ fillLast = NoResult
    /\ failedBefore = FALSE

IdleMerge ==
    /\ mpWays = [outer |-> << >>, inner |-> << >>]
    /\ mpPc = "done"
    /\ mpRole = "outer"
    /\ mpIdx = 0
    /\ mpAdded = 0
    /\ mpDone = {}
    /\ mpResults = << >>
    /\ mpOuters = << >>
    /\ mpInners = << >>
    /\ mpPasses = [outer |-> 0, inner |-> 0]
    /\ mpOut = << >>

\* The store as constructed, before any thread calls into it.
InitStore ==
    /\ UsedWaysInit /\ ScanInit /\ RelationsInit /\ IdleFill /\ IdleMerge
    /\ IdlePolygon /\ IdleCorrect

\* The store once the NodeStore is filled, before geometries are built.
InitFill ==
    /\ UsedWaysInit /\ ScanInit /\ RelationsInit /\ FillInit /\ IdleMerge
    /\ IdlePolygon /\ IdleCorrect

\* The store when wayListMultiPolygon is called for a relation.
InitMerge ==
    /\ UsedWaysInit /\ ScanInit /\ RelationsInit /\ IdleFill /\ MergeInit
    /\ IdlePolygon /\ IdleCorrect

\* The store with the corners of the triangle stored, before polygons are built.
InitPolygon ==
    /\ UsedWaysInit /\ ScanInit /\ RelationsInit /\ PolygonInit /\ IdleMerge
    /\ IdleCorrect

\* The store as constructed, before the geometry of an object is corrected.
InitCorrect == InitStore

\* The UsedWays bitset under concurrent threads.
SpecUsedWays == InitStore /\ [][UsedWaysNext]_vars

\* The RelationScanStore under concurrent threads.
SpecScan == InitStore /\ [][ScanNext]_vars

\* The RelationStore under concurrent threads.
SpecRelations == InitStore /\ [][RelationsNext]_vars

\* Geometries built from ways over a NodeStore that may miss nodes.
SpecFill == InitFill /\ [][FillNext]_vars

\* Polygons built from ways by llListPolygon.
SpecPolygon == InitPolygon /\ [][PolygonNext]_vars

\* Geometries handed to CorrectGeometry before they are written.
SpecCorrect == InitCorrect /\ [][CorrectNext]_vars

\* The assembly of one relation's multipolygon.
SpecMerge == InitMerge /\ [][MergeNext]_vars

\* The same, with the assembly scheduled until it returns.
SpecMergeFair ==
    /\ SpecMerge
    /\ WF_vars(MergeNext)

----------------------------------------------------------------------------
(* The claims                                                              *)

\* C1: once insert(w) has returned, every later at(w) returns true, for
\* every w and under every interleaving, until clear() is called.
C1_InsertThenAt ==
    (uwLast.op = "at" /\ uwLast.wasMarked) => uwLast.ret = TRUE

\* C2: a relation_contains_way(relid, wayid) that has returned is never
\* lost: a later relations_for_way(wayid) that races no locked operation
\* returns a vector that holds relid, whatever other pairs the threads
\* recorded around it.
C2_NoMembershipLost ==
    (rsLast.op = "relations_for_way" /\ ~rsLast.raced) =>
        \A p \in recorded :
            p[2] = rsLast.wayid =>
                \E k \in 1..Len(rsLast.ret) : rsLast.ret[k] = p[1]

\* C2's case: two pairs were recorded for one way and a read of that way returned.
C2_Witness ==
    /\ rsLast.op = "relations_for_way"
    /\ ~rsLast.raced
    /\ Cardinality({p \in recorded : p[2] = rsLast.wayid}) >= 2

\* C7: a reserve call made once the vector is inited, with any arguments and
\* from any thread, changes neither the capacity nor the inited flag.
C7_ReserveIdempotent ==
    [][(/\ inited
        /\ \E t \in Threads, c \in BOOLEAN, n \in SizeHints :
               UsedWays_reserve(t, c, n))
       => (capacity' = capacity /\ inited' = inited)]_vars

\* C7's case: a reserve call returned that found the vector inited.
C7_Witness ==
    /\ uwLast.op = "reserve"
    /\ uwLast.wasInited
    /\ capacity > 0

\* The tag value the most recent store_relation_tags of relid holds for key,
\* "" when there is none.
LatestTag(relid, key) ==
    IF relid \in DOMAIN storedTags /\ key \in DOMAIN storedTags[relid]
    THEN storedTags[relid][key]
    ELSE ""

\* C8: get_relation_tag(relid, key) returns "" when relid has no stored tags
\* and when its tags have no entry for key, and otherwise the value the most
\* recent store_relation_tags of relid gave to key.
C8_RelationTagOrEmpty ==
    (rsLast.op = "get_relation_tag" /\ ~rsLast.raced) =>
        rsLast.ret = LatestTag(rsLast.relid, rsLast.key)

\* C8's case: the tag of a key absent from a known relation's tags was read.
C8_Witness ==
    /\ rsLast.op = "get_relation_tag"
    /\ ~rsLast.raced
    /\ rsLast.relid \in DOMAIN storedTags
    /\ rsLast.key \notin DOMAIN storedTags[rsLast.relid]
    /\ rsLast.ret = ""

\* C9: insert_front appends: the elements of the finished calls stay where
\* they are while a call is in progress, each finished batch follows all
\* earlier elements in the order given, and size() returns the number of
\* elements inserted since the last reopen() or clear().
C9_InsertFrontAppends ==
    /\ Len(insertedLog) <= Len(mOutInLists)
    /\ SubSeq(mOutInLists, 1, Len(insertedLog)) = insertedLog
    /\ relMutex = NoThread => mOutInLists = insertedLog
    /\ relLast.op = "size" => relLast.ret = Len(insertedLog)

\* C9's case: a second non-empty batch was appended behind an earlier one.
C9_Witness ==
    /\ relLast.op = "insert_front"
    /\ Len(mOutInLists) >= 3
    /\ mOutInLists[1] # mOutInLists[3]

\* Whether every node of chain is in the NodeStore.
Resolvable(chain) == \A k \in 1..Len(chain) : chain[k] \in DOMAIN nodes

\* The points of the stored nodes of chain, in the order of chain.
ResolvablePoints(chain) ==
    LET ids == SelectSeq(chain, LAMBDA n : n \in DOMAIN nodes)
    IN  [k \in 1..Len(ids) |-> MakePoint(nodes[ids[k]])]

\* The outcome of a construction under require_integrity: it throws exactly
\* when its chain names a node that is not stored, and otherwise has all the
\* points of the chain, whatever was built before.
IntegrityOutcome ==
    (fillLast.op # "none" /\ fillLast.integrity) =>
        /\ fillLast.threw <=> ~Resolvable(fillLast.chain)
        /\ ~fillLast.threw => fillLast.points = ResolvablePoints(fillLast.chain)

\* C5: with require_integrity set, a geometry construction throws exactly
\* when its chain names a node that is not stored; no construction changes
\* the NodeStore or the flag, and a fully resolvable chain built after a
\* failed one gets all its points.
C5_IntegrityFailureIsLocal ==
    /\ []IntegrityOutcome
    /\ [][fillLast' # fillLast =>
            (nodes' = nodes /\ require_integrity' = require_integrity)]_vars

\* C5's case: a construction threw, and a later one of a resolvable chain succeeded.
C5_Witness ==
    /\ failedBefore
    /\ fillLast.op # "none"
    /\ fillLast.integrity
    /\ ~fillLast.threw
    /\ Len(fillLast.points) >= 2

\* C6: with require_integrity cleared, a geometry construction does not
\* throw and yields exactly the points of the stored nodes, in chain order.
C6_MissingPointsOmitted ==
    (fillLast.op # "none" /\ ~fillLast.integrity) =>
        /\ ~fillLast.threw
        /\ fillLast.points = ResolvablePoints(fillLast.chain)

\* C6's case: a chain with a missing node between two stored ones was built.
C6_Witness ==
    /\ fillLast.op # "none"
    /\ ~fillLast.integrity
    /\ Len(fillLast.chain) = 3
    /\ fillLast.chain[2] \notin DOMAIN nodes
    /\ Len(fillLast.points) = 2

\* The passes over a member list never outnumber its members.
PassesBounded ==
    /\ mpPasses.outer <= Len(mpWays.outer)
    /\ mpPasses.inner <= Len(mpWays.inner)

\* A pass begins only while a member is left to consume, and the merge of a
\* list ends only with every member consumed or after a pass that consumed none.
StopsWhenConsumed ==
    /\ (mpPc = "visit" /\ mpIdx = 1 /\ mpAdded = 0) => ~AllDone(MemberList, mpDone)
    /\ mpPc \in {"build", "done"} => (AllDone(mpWays.inner, mpDone) \/ mpAdded = 0)

\* C3: ring assembly terminates on every member list, malformed ones
\* included: the passes over a list are bounded by its number of members,
\* merging stops once all members are consumed or a pass consumes none, and
\* the multipolygon is returned.
C3_AssemblyTerminates ==
    /\ [](PassesBounded /\ StopsWhenConsumed)
    /\ <>(mpPc = "done")

\* C3's case: a relation of a ring and a dangling way was assembled in two
\* passes, and the dangling way is left as an open chain.
C3_Witness ==
    /\ mpPc = "done"
    /\ mpWays.outer = <<5, 6>>
    /\ mpPasses.outer >= 2
    /\ \E k \in 1..Len(mpOuters) : ~IsClosed(mpOuters[k])

\* Whether two open chains have the same two ends: together they are one ring.
FormOneRing(a, b) ==
    /\ Front(a) # Back(a)
    /\ {Front(a), Back(a)} = {Front(b), Back(b)}

\* C4: two distinct open outer ways that together form one ring yield
\* exactly one polygon, whose outer ring is closed and holds every node of
\* both ways, in either input order and either direction of each way.
C4_OrderAndDirectionIndependent ==
    (/\ mpPc = "done"
     /\ Len(mpWays.outer) = 2
     /\ mpWays.outer[1] # mpWays.outer[2]
     /\ FormOneRing(WayNodes(mpWays.outer[1]), WayNodes(mpWays.outer[2])))
    => /\ Len(mpOut) = 1
       /\ IsClosed(mpOut[1].outer)
       /\ Len(mpOut[1].outer) =
              Len(WayNodes(mpWays.outer[1])) + Len(WayNodes(mpWays.outer[2])) - 1
       /\ \A k \in 1..2 : \A n \in 1..Len(WayNodes(mpWays.outer[k])) :
              \E i \in 1..Len(mpOut[1].outer) :
                  mpOut[1].outer[i] = WayNodes(mpWays.outer[k])[n]

\* C4's case: the second half of the square, given reversed and first, was
\* merged with the first half into one ring.
C4_Witness ==
    /\ mpPc = "done"
    /\ mpWays.outer = <<3, 1>>
    /\ Len(mpOut) = 1

\* C10: a single outer way whose first and last node are the same, with no
\* inner ways, yields exactly one polygon: that ring, with no inner rings.
C10_SingleClosedWay ==
    (/\ mpPc = "done"
     /\ Len(mpWays.outer) = 1
     /\ Front(WayNodes(mpWays.outer[1])) = Back(WayNodes(mpWays.outer[1]))
     /\ mpWays.inner = << >>)
    => /\ Len(mpOut) = 1
       /\ mpOut[1].outer = WayNodes(mpWays.outer[1])
       /\ mpOut[1].inners = << >>

\* C10's case: the closed triangle alone was assembled.
C10_Witness ==
    /\ mpPc = "done"
    /\ mpWays = [outer |-> <<5>>, inner |-> << >>]
    /\ Len(mpOut) = 1

\* The polygons of the result that have ring r among their inner rings.
PolygonsHolding(r) ==
    {k \in 1..Len(mpOut) :
        \E i \in 1..Len(mpOut[k].inners) : mpOut[k].inners[i] = r}

\* C11: every closed inner ring is an inner ring of exactly one polygon of
\* the result, one whose outer ring contains it, when some closed outer ring
\* contains it, and of no polygon otherwise; a polygon whose outer ring does
\* not contain the ring has it not.
C11_InnerAssignedToContainer ==
    mpPc = "done" =>
        \A i \in 1..Len(mpInners) :
            IsClosed(mpInners[i]) =>
                LET r == mpInners[i]
                    holders == PolygonsHolding(r)
                IN  /\ \A k \in holders : RingWithin(r, mpOut[k].outer)
                    /\ IF \E k \in 1..Len(mpOut) : RingWithin(r, mpOut[k].outer)
                       THEN Cardinality(holders) = 1
                       ELSE holders = {}

\* C11's case: the triangle away from the square and the triangle in the
\* square are the outer ways, the small triangle is the inner way: only the
\* second polygon has it.
C11_Witness ==
    /\ mpPc = "done"
    /\ mpWays = [outer |-> <<8, 5>>, inner |-> <<9>>]
    /\ Len(mpOut) = 2
    /\ mpOut[1].inners = << >>
    /\ mpOut[2].inners = <<WayNodes(9)>>

\* The points of the nodes of chain, all stored.
ChainPoints(chain) == [k \in 1..Len(chain) |-> MakePoint(nodes[chain[k]])]

\* C12: llListPolygon on a way whose first point differs from its last
\* returns a closed outer ring, the way's points with the first one appended,
\* in the canonical (clockwise) direction; a way whose first and last point
\* are the same gets no further point.
C12_PolygonAutoClosed ==
    (polyLast.op = "llListPolygon" /\ ~polyLast.threw /\ Len(polyLast.chain) > 0) =>
        LET pts == ChainPoints(polyLast.chain)
            ring == polyLast.outer
        IN  IF Front(pts) # Back(pts)
            THEN /\ IsClosed(ring)
                 /\ ring \in {Append(pts, Front(pts)), Reverse(Append(pts, Front(pts)))}
                 /\ Shoelace(ring) <= 0
            ELSE ring \in {pts, Reverse(pts)}

\* Whether sequence a is the beginning of sequence b.
IsPrefix(a, b) == Len(a) <= Len(b) /\ SubSeq(b, 1, Len(a)) = a

\* Every membership in the index before a step is in it after the step, at
\* the same place of its way's vector.
MembershipsKept ==
    \A w \in DOMAIN relationsForWays :
        /\ w \in DOMAIN relationsForWays'
        /\ IsPrefix(relationsForWays[w], relationsForWays'[w])

\* Whether the step is an unlocked read that overlaps a locked operation.
RacingRead ==
    /\ rsLast' # rsLast
    /\ rsLast'.op \in {"way_in_any_relations", "relations_for_way", "get_relation_tag"}
    /\ rsLast'.raced

\* What the queries answer on a store that clear() has just emptied.
AnswersEmpty ==
    /\ \A w \in ScanWays :
           /\ ~WayInAnyRelations(relationsForWays, w)
           /\ RelationsForWay(relationsForWays, w) = << >>
    /\ \A r \in RelIds, k \in Keys : GetRelationTag(relationTags, r, k) = ""

\* C13: a membership written to the index stays in it through every later
\* operation but clear() (relation_contains_way, store_relation_tags and the
\* three queries, called without overlapping a locked operation); once
\* clear() has returned, way_in_any_relations is false and relations_for_way
\* is empty for every way, and get_relation_tag is "" for every relation.
C13_MembershipsStayUntilClear ==
    /\ [][((\E t \in Threads : RelationScanStore_clear(t)) \/ RacingRead)
            \/ MembershipsKept]_vars
    /\ [](rsLast.op = "clear" => AnswersEmpty)

\* C13's case: a membership was recorded, tags were stored and a way was
\* queried afterwards, and the membership is still in the index.
C13_Witness ==
    /\ rsLast.op = "relations_for_way"
    /\ ~rsLast.raced
    /\ storedTags # << >>
    /\ \E p \in recorded :
           /\ p[2] # rsLast.wayid
           /\ p[2] \in DOMAIN relationsForWays
           /\ \E k \in 1..Len(relationsForWays[p[2]]) : relationsForWays[p[2]][k] = p[1]

\* C14: at(wayid) never grows or changes the vector, and it returns false
\* for every wayid not inserted since the last clear(), a wayid at or past
\* the current size included (calls that overlap no insert).
C14_AtFalseUnlessInserted ==
    (uwLast.op = "at" /\ ~uwLast.raced /\ ~uwLast.wasMarked) => uwLast.ret = FALSE

\* C18: every element access of the vector is within bounds: insert(wayid)
\* writes element wayid only with wayid < size, and at(wayid) reads element
\* wayid only with wayid < size.
C18_AccessInBounds ==
    uwLast.op \in {"insert", "at"} => ~uwLast.oob

\* C15: the read operations hold the lock of their structure like the
\* mutating ones: no at, way_in_any_relations, relations_for_way or
\* get_relation_tag runs while another thread is inside a locked operation
\* on the same structure.
C15_ReadsHoldTheLock ==
    /\ uwLast.op = "at" => ~uwLast.raced
    /\ rsLast.op \in {"way_in_any_relations", "relations_for_way", "get_relation_tag"}
           => ~rsLast.raced

\* C16: relations_for_way(wayid) returns exactly the relids passed to
\* relation_contains_way(relid, wayid) since the last clear(), in call
\* order and with duplicates kept; for a way with none it returns the empty
\* vector (calls that overlap no locked operation).
C16_RelationsInCallOrder ==
    (rsLast.op = "relations_for_way" /\ ~rsLast.raced) =>
        rsLast.ret = recordLog[rsLast.wayid]

\* C16's case: one relation was recorded twice for a way, and the way was read.
C16_Witness ==
    /\ rsLast.op = "relations_for_way"
    /\ ~rsLast.raced
    /\ Len(rsLast.ret) = 2
    /\ rsLast.ret[1] = rsLast.ret[2]

\* C17: the queries are read-only: way_in_any_relations(wayid) is true
\* exactly when relation_contains_way(_, wayid) has returned since the last
\* clear(), whatever queries were made before (calls that overlap no locked
\* operation).
C17_QueriesReadOnly ==
    (rsLast.op = "way_in_any_relations" /\ ~rsLast.raced) =>
        (rsLast.ret <=> \E p \in recorded : p[2] = rsLast.wayid)

\* The rings of the multipolygon returned: outer and inner ones.
EmittedRings ==
    {mpOut[k].outer : k \in 1..Len(mpOut)}
        \cup UNION {{mpOut[k].inners[i] : i \in 1..Len(mpOut[k].inners)} :
                       k \in 1..Len(mpOut)}

\* C19: every ring of the multipolygon returned is closed; a chain left open
\* by the merge is in no ring of the result, and it keeps no closed outer
\* ring of the same relation from being a polygon of the result.
C19_OnlyClosedRingsEmitted ==
    mpPc = "done" =>
        /\ \A r \in EmittedRings : IsClosed(r)
        /\ \A k \in 1..Len(mpOuters) :
               IF IsClosed(mpOuters[k])
               THEN \E j \in 1..Len(mpOut) : mpOut[j].outer = mpOuters[k]
               ELSE mpOuters[k] \notin EmittedRings
        /\ \A k \in 1..Len(mpInners) :
               ~IsClosed(mpInners[k]) => mpInners[k] \notin EmittedRings

\* C19's case: a dangling way came before a closed way in the outer list:
\* the result is the polygon of the closed way alone.
C19_Witness ==
    /\ mpPc = "done"
    /\ mpWays.outer = <<6, 5>>
    /\ \E k \in 1..Len(mpOuters) : ~IsClosed(mpOuters[k])
    /\ Len(mpOut) = 1
    /\ mpOut[1].outer = WayNodes(5)

\* Whether the last CorrectGeometry call took its geometry away from the
\* caller: it emptied the geometry or left by an exception.
GeometryDropped == cgLast.geom = << >> \/ cgLast.threw

\* C20: a geometry that fails the validity check with too few points is
\* dropped; one that fails it for another reason stays, corrected, and a
\* line is printed for it exactly when verbose is set.
C20_FewPointsDropped ==
    (cgLast.op = "CorrectGeometry" /\ cgLast.checked) =>
        /\ cgLast.failure = FewPoints => GeometryDropped
        /\ cgLast.failure \notin {0, FewPoints} =>
               /\ ~GeometryDropped
               /\ cgLast.geom = CorrectRing(cgLast.in)
               /\ cgLast.logged <=> cgLast.verbose

====
